---- MODULE Spec2Model ----
(***************************************************************************)
(* Travel Buddy voice assistant (server.py): the webhook tool dispatcher,  *)
(* the five tool handlers and their registration on the LLM service, and   *)
(* the per-connection pipeline with its connect / disconnect handlers.     *)
(***************************************************************************)
EXTENDS Integers, Sequences, FiniteSets, TLC

VARIABLES
    whIn,        \* dispatcher input under test: the transport outcome and the reply body
    whOut,       \* what call_vapi_webhook did with whIn
    lifecycle,   \* "Connecting", "Active", "Closing", "Closed"
    preq,        \* frames queued ahead of the LLM stage (input, stt, user aggregator)
    ttsq,        \* frames queued at the synthesizer
    postq,       \* frames between the synthesizer and the assistant aggregator
    speaking,    \* the VAD has seen the user start and not yet stop
    gen,         \* text deltas the running LLM inference has still to emit
    emitted,     \* text the LLM has delta-emitted in the current assistant turn
    partial,     \* text the assistant aggregator has accumulated in the current turn
    messages,    \* the conversation context
    calls,       \* the function calls the LLM has issued, in order, each with its request
    hist         \* observations: turns, inference and disconnect seen, the first audio played

vars == <<whIn, whOut, lifecycle, preq, ttsq, postq, speaking, gen, emitted,
          partial, messages, calls, hist>>

whVars == <<whIn, whOut>>
botVars == <<lifecycle, preq, ttsq, postq, speaking, gen, emitted,
             partial, messages, calls, hist>>

(***************************************************************************)
(* Bounds                                                                  *)
(***************************************************************************)
MaxResults == 2      \* longest "results" list in a reply
MaxTurns == 2        \* user utterances per connection
MaxCalls == 1        \* function calls per connection
MaxDeltas == 2       \* text deltas per LLM inference

(***************************************************************************)
(* Python / JSON values.  k is the type, s the text of a str, n the number *)
(* of a num, the truth of a bool, or the size of a nested container;       *)
(* a nested dict of size 1 is {"a": 1}, a nested list of size 1 is [1].    *)
(***************************************************************************)
Str(t) == [k |-> "str", s |-> t, n |-> 0]
Num(i) == [k |-> "num", s |-> "", n |-> i]
Null == [k |-> "null", s |-> "", n |-> 0]
Bool(b) == [k |-> "bool", s |-> "", n |-> IF b THEN 1 ELSE 0]
Dict(i) == [k |-> "dict", s |-> "", n |-> i]
List(i) == [k |-> "list", s |-> "", n |-> i]

PyVals == {Str(""), Str("ok"), Str("x"), Num(0), Num(1), Null, Bool(FALSE), Bool(TRUE),
           Dict(0), Dict(1), List(0), List(1)}

\* bool(v): Python truthiness
Truthy(v) ==
    CASE v.k = "str" -> v.s # ""
      [] v.k = "num" -> v.n # 0
      [] v.k = "null" -> FALSE
      [] v.k = "bool" -> v.n # 0
      [] OTHER -> v.n > 0

\* type(v).__name__
TypeName(v) ==
    CASE v.k = "num" -> "int"
      [] v.k = "null" -> "NoneType"
      [] OTHER -> v.k

\* json.dumps(v) with the default separators
DumpsVal(v) ==
    CASE v.k = "str" -> "\"" \o v.s \o "\""
      [] v.k = "num" -> ToString(v.n)
      [] v.k = "null" -> "null"
      [] v.k = "bool" -> (IF v.n # 0 THEN "true" ELSE "false")
      [] v.k = "dict" -> (IF v.n = 0 THEN "{}" ELSE "{\"a\": 1}")
      [] OTHER -> (IF v.n = 0 THEN "[]" ELSE "[1]")

\* str(v)
StrVal(v) ==
    CASE v.k = "str" -> v.s
      [] v.k = "num" -> ToString(v.n)
      [] v.k = "null" -> "None"
      [] v.k = "bool" -> (IF v.n # 0 THEN "True" ELSE "False")
      [] v.k = "dict" -> (IF v.n = 0 THEN "{}" ELSE "{'a': 1}")
      [] OTHER -> (IF v.n = 0 THEN "[]" ELSE "[1]")

(***************************************************************************)
(* An element of a reply's "results": a mapping with an optional "result"  *)
(* and an optional "id" (in that key order), or a value that is no mapping.*)
(***************************************************************************)
MapElem(hasResult, result, hasId) ==
    [isMap |-> TRUE, hasResult |-> hasResult, result |-> result, hasId |-> hasId,
     leaf |-> Null]
LeafElem(v) ==
    [isMap |-> FALSE, hasResult |-> FALSE, result |-> Null, hasId |-> FALSE, leaf |-> v]

Elems ==
    {MapElem(TRUE, v, i) : v \in PyVals, i \in BOOLEAN}
    \cup {MapElem(FALSE, Null, i) : i \in BOOLEAN}
    \cup {LeafElem(v) : v \in PyVals \ {Dict(0), Dict(1)}}

Filler == MapElem(TRUE, Str("later"), FALSE)

RECURSIVE Join(_, _)
Join(items, sep) ==
    IF items = <<>> THEN ""
    ELSE IF Len(items) = 1 THEN items[1]
    ELSE items[1] \o sep \o Join(Tail(items), sep)

DumpsElem(e) ==
    IF e.isMap
    THEN "{" \o Join((IF e.hasResult THEN <<"\"result\": " \o DumpsVal(e.result)>> ELSE <<>>)
                     \o (IF e.hasId THEN <<"\"id\": 7">> ELSE <<>>), ", ") \o "}"
    ELSE DumpsVal(e.leaf)

(***************************************************************************)
(* A decoded reply body.  A dict reply has, in key order, an optional      *)
(* "results" (a list of elements, or some other value), an optional        *)
(* "result" and an optional "foo": 1.  Any other reply is a plain value.   *)
(***************************************************************************)
DictReply(hasResults, resultsIsList, results, resultsVal, hasResult, result, hasFoo) ==
    [isDict |-> TRUE, hasResults |-> hasResults, resultsIsList |-> resultsIsList,
     results |-> results, resultsVal |-> resultsVal, hasResult |-> hasResult,
     result |-> result, hasFoo |-> hasFoo, other |-> Null]
PlainReply(v) ==
    [isDict |-> FALSE, hasResults |-> FALSE, resultsIsList |-> FALSE, results |-> <<>>,
     resultsVal |-> Null, hasResult |-> FALSE, result |-> Null, hasFoo |-> FALSE,
     other |-> v]

ResultLists ==
    {<<>>} \cup {<<e>> \o [i \in 1..t |-> Filler] : e \in Elems, t \in 0..(MaxResults - 1)}

TopResults == {Str("ok"), Null, Num(1)}

\* the optional top-level "result" of a dict reply
Opt(vals) == {[has |-> FALSE, v |-> Null]} \cup {[has |-> TRUE, v |-> r] : r \in vals}

Replies ==
    {DictReply(TRUE, TRUE, l, Null, o.has, o.v, f) :
        l \in ResultLists, o \in Opt(TopResults), f \in BOOLEAN}
    \cup {DictReply(TRUE, FALSE, <<>>, v, o.has, o.v, FALSE) :
        v \in PyVals \ {List(0), List(1)}, o \in Opt(TopResults)}
    \cup {DictReply(FALSE, FALSE, <<>>, Null, o.has, o.v, f) :
        o \in Opt(PyVals), f \in BOOLEAN}
    \cup {PlainReply(v) : v \in PyVals \ {Dict(0), Dict(1)}}

DumpsResults(r) ==
    IF r.resultsIsList
    THEN "[" \o Join([i \in 1..Len(r.results) |-> DumpsElem(r.results[i])], ", ") \o "]"
    ELSE DumpsVal(r.resultsVal)

\* json.dumps(result) of a dict reply
DumpsReply(r) ==
    "{" \o Join((IF r.hasResults THEN <<"\"results\": " \o DumpsResults(r)>> ELSE <<>>)
                \o (IF r.hasResult THEN <<"\"result\": " \o DumpsVal(r.result)>> ELSE <<>>)
                \o (IF r.hasFoo THEN <<"\"foo\": 1">> ELSE <<>>), ", ") \o "}"


(***************************************************************************)
(* call_vapi_webhook                                                       *)
(***************************************************************************)
\* what the POST can end in: a decoded 2xx reply, or an exception raised by
\* client.post (timeout, transport), raise_for_status or response.json
NetOutcomes == {"ok", "timeout", "connect_error", "http_error", "bad_json"}

\* str(e) of the exception each failed outcome raises
NetExcText(net) ==
    CASE net = "timeout" -> ""
      [] net = "connect_error" -> "All connection attempts failed"
      [] net = "http_error" -> "Server error '500 Internal Server Error' for url"
      [] OTHER -> "Expecting value: line 1 column 1 (char 0)"

Returns(v) == [exc |-> FALSE, msg |-> "", val |-> v]
Raises(m) == [exc |-> TRUE, msg |-> m, val |-> Null]

\* len(result["results"]) is defined for a str and a dict, not for a number, None or a bool
HasLen(v) == v.k \in {"str", "dict"}
LenVal(v) == IF v.k = "str" THEN Len(v.s) ELSE v.n

NoGet(typename) == "'" \o typename \o "' object has no attribute 'get'"
NoLen(typename) == "object of type '" \o typename \o "' has no len()"

\* result["results"][0].get("result", "") and the return that follows it
FirstResult(first) ==
    IF first.isMap
    THEN LET tool_result == IF first.hasResult THEN first.result ELSE Str("")
         IN Returns(IF Truthy(tool_result) THEN tool_result ELSE Str(DumpsElem(first)))
    ELSE Raises(NoGet(TypeName(first.leaf)))

\* the branch taken once "results" in result holds with a positive len
NonEmptyResults(result) ==
    IF result.resultsIsList THEN FirstResult(result.results[1])
    ELSE IF result.resultsVal.k = "str" THEN Raises(NoGet("str"))
    ELSE Raises("0")

ElseResult(result) ==
    IF result.hasResult THEN Returns(result.result) ELSE Returns(Str(DumpsReply(result)))

\* the body of the try block after response.json()
ParseReply(result) ==
    IF result.isDict
    THEN IF result.hasResults
         THEN IF result.resultsIsList
              THEN IF Len(result.results) > 0 THEN NonEmptyResults(result)
                   ELSE ElseResult(result)
              ELSE IF ~HasLen(result.resultsVal)
                   THEN Raises(NoLen(TypeName(result.resultsVal)))
                   ELSE IF LenVal(result.resultsVal) > 0 THEN NonEmptyResults(result)
                        ELSE ElseResult(result)
         ELSE ElseResult(result)
    ELSE Returns(Str(StrVal(result.other)))

ErrorPrefix == "Error calling travel service: "

TryBody(net, reply) == IF net = "ok" THEN ParseReply(reply) ELSE Raises(NetExcText(net))

\* an except clause that names only the httpx errors: parsing errors escape
call_vapi_webhook_httpx_only(net, reply) ==
    LET body == TryBody(net, reply)
    IN IF body.exc
       THEN IF net = "ok" THEN [raised |-> TRUE, value |-> Null]
            ELSE [raised |-> FALSE, value |-> Str(ErrorPrefix \o body.msg)]
       ELSE [raised |-> FALSE, value |-> body.val]

\* an except clause that names only httpx.HTTPStatusError: timeouts escape
call_vapi_webhook_status_only(net, reply) ==
    LET body == TryBody(net, reply)
    IN IF body.exc
       THEN IF net = "http_error"
            THEN [raised |-> FALSE, value |-> Str(ErrorPrefix \o body.msg)]
            ELSE [raised |-> TRUE, value |-> Null]
       ELSE [raised |-> FALSE, value |-> body.val]

\* a parser that takes a top-level "result" before looking at "results"
call_vapi_webhook_result_first(net, reply) ==
    LET body == IF net = "ok" /\ reply.isDict /\ reply.hasResult
                THEN Returns(reply.result) ELSE TryBody(net, reply)
    IN IF body.exc
       THEN [raised |-> FALSE, value |-> Str(ErrorPrefix \o body.msg)]
       ELSE [raised |-> FALSE, value |-> body.val]

\* try: ... except Exception as e: return f"Error calling travel service: {str(e)}"
call_vapi_webhook(net, reply) ==
    LET body == TryBody(net, reply)
    IN IF body.exc
       THEN [raised |-> FALSE, value |-> Str(ErrorPrefix \o body.msg)]
       ELSE [raised |-> FALSE, value |-> body.val]

\* the JSON body posted to the webhook: message.toolCallList[0].function
Payload(function_name, arguments) ==
    [name |-> function_name, arguments |-> IF arguments = {} THEN {} ELSE arguments]

(***************************************************************************)
(* The dispatcher on its own: one input, one call.                         *)
(***************************************************************************)
WhInputs ==
    {[net |-> "ok", reply |-> r] : r \in Replies}
    \cup {[net |-> n, reply |-> PlainReply(Null)] : n \in NetOutcomes \ {"ok"}}

NoOut == [done |-> FALSE, raised |-> FALSE, value |-> Null]

WhCall ==
    /\ ~whOut.done
    /\ LET r == call_vapi_webhook(whIn.net, whIn.reply)
       IN whOut' = [done |-> TRUE, raised |-> r.raised, value |-> r.value]
    /\ UNCHANGED <<whIn, botVars>>


(***************************************************************************)
(* Tool schema, handlers and their registration                            *)
(***************************************************************************)
\* the function names of TRAVEL_TOOLS, in order
TRAVEL_TOOLS ==
    <<"get_current_date", "search_flights", "book_flight", "search_hotels", "book_hotel">>

\* register_function's cancel_on_interruption when the caller does not pass it
DefaultCancelOnInterruption == TRUE

Reg(name, handler, cancel) ==
    [name |-> name, handler |-> handler, cancel_on_interruption |-> cancel]

\* a registration that leaves every handler at the default
Registrations_all_default ==
    <<Reg("get_current_date", "handle_get_current_date", DefaultCancelOnInterruption),
      Reg("search_flights", "handle_search_flights", DefaultCancelOnInterruption),
      Reg("book_flight", "handle_book_flight", DefaultCancelOnInterruption),
      Reg("search_hotels", "handle_search_hotels", DefaultCancelOnInterruption),
      Reg("book_hotel", "handle_book_hotel", DefaultCancelOnInterruption)>>

\* the llm.register_function calls of run_bot, in order
Registrations ==
    <<Reg("get_current_date", "handle_get_current_date", DefaultCancelOnInterruption),
      Reg("search_flights", "handle_search_flights", FALSE),
      Reg("book_flight", "handle_book_flight", FALSE),
      Reg("search_hotels", "handle_search_hotels", FALSE),
      Reg("book_hotel", "handle_book_hotel", FALSE)>>

RegisteredNames == {Registrations[i].name : i \in DOMAIN Registrations}

\* the entry the LLM service holds for a name: the last registration under it
Registered(name) ==
    LET last == CHOOSE i \in DOMAIN Registrations :
                    /\ Registrations[i].name = name
                    /\ \A j \in DOMAIN Registrations :
                           Registrations[j].name = name => j <= i
    IN Registrations[last]

\* handlers whose copy-pasted body kept the name of the flight search
WebhookNameOf_copied(handler) ==
    CASE handler = "handle_search_flights" -> "search_flights"
      [] handler = "handle_book_flight" -> "book_flight"
      [] handler = "handle_search_hotels" -> "search_flights"
      [] handler = "handle_book_hotel" -> "book_hotel"
      [] OTHER -> ""

\* the name each handler passes to call_vapi_webhook; "" for the handler that calls none
WebhookNameOf(handler) ==
    CASE handler = "handle_search_flights" -> "search_flights"
      [] handler = "handle_book_flight" -> "book_flight"
      [] handler = "handle_search_hotels" -> "search_hotels"
      [] handler = "handle_book_hotel" -> "book_hotel"
      [] OTHER -> ""

\* dict(args): a copy with the same items
DictCopy(args) == {item \in args : TRUE}

\* datetime.now().strftime("%Y-%m-%d")
Today == "2024-03-10"

WELCOME_MESSAGE ==
    "Hey there! I'm Travel Buddy, your personal travel assistant. "
    \o "I can help you search and book flights and hotels. "
    \o "Where would you like to go?"

(***************************************************************************)
(* Inputs of a connection                                                  *)
(***************************************************************************)
Utterances == {"flights to Paris"}
\* the text an inference streams, delta by delta
DeltaTexts == <<"Sure, ", "one ", "moment ", "please.">>
\* the arguments the LLM sends with each function
ArgsFor(name) ==
    CASE name = "get_current_date" -> {}
      [] name = "search_flights" -> {<<"origin", "NYC">>, <<"destination", "Paris">>}
      [] name = "book_flight" -> {<<"offer_id", "o1">>}
      [] name = "search_hotels" -> {}
      [] OTHER -> {<<"hotel_name", "Ritz">>}

DeltaSeqs == {SubSeq(DeltaTexts, 1, n) : n \in 0..MaxDeltas}

\* what the webhook may answer during a connection
SessionInputs ==
    {[net |-> "ok",
      reply |-> DictReply(TRUE, TRUE, <<MapElem(TRUE, Str("ok"), FALSE)>>, Null,
                          FALSE, Null, FALSE)],
     [net |-> "timeout", reply |-> PlainReply(Null)]}

(***************************************************************************)
(* Frames and messages                                                     *)
(***************************************************************************)
Frame(type, text) == [type |-> type, text |-> text]
EndFrame == Frame("End", "")

Message(role, content) == [role |-> role, content |-> content]

RECURSIVE Keep(_, _)
Keep(q, types) ==
    IF q = <<>> THEN <<>>
    ELSE IF Head(q).type \in types THEN <<Head(q)>> \o Keep(Tail(q), types)
    ELSE Keep(Tail(q), types)

NoGen == [active |-> FALSE, deltas |-> <<>>, call |-> FALSE, name |-> "", args |-> {}]
NoMark == [seen |-> FALSE, text |-> "", inferred |-> FALSE, spoke |-> FALSE]

BotInit ==
    /\ lifecycle = "Connecting"
    /\ preq = <<>>
    /\ ttsq = <<>>
    /\ postq = <<>>
    /\ speaking = FALSE
    /\ gen = NoGen
    /\ emitted = <<>>
    /\ partial = <<>>
    /\ messages = <<Message("system", Str("You are Travel Buddy"))>>
    /\ calls = <<>>
    /\ hist = [turns |-> 0, spoke |-> FALSE, inferred |-> FALSE, disconnected |-> FALSE,
               firstAudio |-> NoMark, cut |-> "none"]

Init ==
    /\ whIn = [net |-> "ok", reply |-> PlainReply(Null)]
    /\ whOut = NoOut
    /\ BotInit

WhInit ==
    /\ whIn \in WhInputs
    /\ whOut = NoOut
    /\ BotInit

(***************************************************************************)
(* Transport events                                                        *)
(***************************************************************************)
\* a connect handler that asks the LLM for the greeting instead of speaking it
on_client_connected_via_llm ==
    /\ lifecycle = "Connecting"
    /\ lifecycle' = "Active"
    /\ preq' = Append(preq, Frame("Transcript", "greet the user"))
    /\ UNCHANGED <<whVars, ttsq, postq, speaking, gen, emitted, partial, messages,
                   calls, hist>>

\* on_client_connected: task.queue_frames([TTSSpeakFrame(text=WELCOME_MESSAGE)])
on_client_connected ==
    /\ lifecycle = "Connecting"
    /\ lifecycle' = "Active"
    /\ preq' = Append(preq, Frame("TTSSpeak", WELCOME_MESSAGE))
    /\ UNCHANGED <<whVars, ttsq, postq, speaking, gen, emitted, partial, messages,
                   calls, hist>>

\* a disconnect handler that only logs
on_client_disconnected_log_only ==
    /\ lifecycle = "Active"
    /\ ~hist.disconnected
    /\ speaking' = FALSE
    /\ hist' = [hist EXCEPT !.disconnected = TRUE]
    /\ UNCHANGED <<whVars, lifecycle, preq, ttsq, postq, gen, emitted, partial,
                   messages, calls>>

\* on_client_disconnected: task.queue_frames([EndFrame()])
on_client_disconnected ==
    /\ lifecycle = "Active"
    /\ ~hist.disconnected
    /\ lifecycle' = "Closing"
    /\ preq' = Append(preq, EndFrame)
    /\ speaking' = FALSE
    /\ hist' = [hist EXCEPT !.disconnected = TRUE]
    /\ UNCHANGED <<whVars, ttsq, postq, gen, emitted, partial, messages, calls>>

InFlight(c) == c.pc \in {"started", "posted"}

\* an Interrupt that cancels every call in flight
CancelOnInterrupt_all(cs) ==
    [i \in DOMAIN cs |->
        IF InFlight(cs[i])
        THEN [cs[i] EXCEPT !.pc = "cancelled", !.interrupted = TRUE]
        ELSE cs[i]]

\* what an Interrupt does to the calls in flight: it cancels those registered with
\* cancel_on_interruption and leaves the others running
CancelOnInterrupt(cs) ==
    [i \in DOMAIN cs |->
        IF InFlight(cs[i])
        THEN IF cs[i].cancel_on_interruption
             THEN [cs[i] EXCEPT !.pc = "cancelled", !.interrupted = TRUE]
             ELSE [cs[i] EXCEPT !.interrupted = TRUE]
        ELSE cs[i]]

\* an Interrupt after which the aggregator keeps nothing of the cut-off response
UserStartedSpeaking_discard ==
    /\ lifecycle = "Active"
    /\ ~hist.disconnected
    /\ ~speaking
    /\ hist.turns < MaxTurns
    /\ speaking' = TRUE
    /\ preq' = Keep(preq, {"Transcript", "End"})
    /\ ttsq' = Keep(ttsq, {"End"})
    /\ postq' = Keep(postq, {"End"})
    /\ gen' = NoGen
    /\ emitted' = <<>>
    /\ partial' = <<>>
    /\ calls' = CancelOnInterrupt(calls)
    /\ hist' = [hist EXCEPT !.spoke = TRUE,
                            !.cut = IF partial = <<>> THEN @
                                    ELSE IF partial = emitted THEN "exact" ELSE "short"]
    /\ UNCHANGED <<whVars, lifecycle, messages>>

\* The VAD hears the user start (allow_interruptions=True): every stage drops the
\* frames it has buffered, the running inference stops, the assistant aggregator
\* finalizes what it has accumulated, and cancellable function calls are cancelled.
UserStartedSpeaking ==
    /\ lifecycle = "Active"
    /\ ~hist.disconnected
    /\ ~speaking
    /\ hist.turns < MaxTurns
    /\ speaking' = TRUE
    /\ preq' = Keep(preq, {"Transcript", "End"})
    /\ ttsq' = Keep(ttsq, {"End"})
    /\ postq' = Keep(postq, {"End"})
    /\ gen' = NoGen
    /\ emitted' = <<>>
    /\ partial' = <<>>
    /\ messages' = IF partial = <<>> THEN messages
                   ELSE Append(messages, Message("assistant", Str(Join(partial, ""))))
    /\ calls' = CancelOnInterrupt(calls)
    /\ hist' = [hist EXCEPT !.spoke = TRUE,
                            !.cut = IF partial = <<>> THEN @
                                    ELSE IF partial = emitted THEN "exact" ELSE "short"]
    /\ UNCHANGED <<whVars, lifecycle>>

\* The VAD hears the user start while the assistant is silent: nothing has been
\* played yet, or nothing is left to play.  Whether that raises an Interrupt is
\* the transport's choice; this is the step in which it raises none.
Silent == ~hist.firstAudio.seen \/ (~gen.active /\ ttsq = <<>> /\ postq = <<>>)

UserStartedSpeakingSilent ==
    /\ lifecycle = "Active"
    /\ ~hist.disconnected
    /\ ~speaking
    /\ hist.turns < MaxTurns
    /\ Silent
    /\ speaking' = TRUE
    /\ hist' = [hist EXCEPT !.spoke = TRUE]
    /\ UNCHANGED <<whVars, lifecycle, preq, ttsq, postq, gen, emitted, partial, messages,
                   calls>>

\* The VAD hears the user stop and the transcriber emits the final transcript.
UserStoppedSpeaking ==
    /\ lifecycle = "Active"
    /\ ~hist.disconnected
    /\ speaking
    /\ \E text \in Utterances :
           preq' = Append(preq, Frame("Transcript", text))
    /\ speaking' = FALSE
    /\ hist' = [hist EXCEPT !.turns = @ + 1]
    /\ UNCHANGED <<whVars, lifecycle, ttsq, postq, gen, emitted, partial, messages,
                   calls>>


(***************************************************************************)
(* Pipeline stages, in the order of Pipeline([...])                        *)
(***************************************************************************)
Running == lifecycle \in {"Active", "Closing"}

NewCall(name, args) ==
    [name |-> name, args |-> args, handler |-> Registered(name).handler,
     cancel_on_interruption |-> Registered(name).cancel_on_interruption,
     pc |-> "started", posted |-> FALSE, payload |-> Payload("", {}),
     failed |-> FALSE, result |-> Null, callbacks |-> 0, interrupted |-> FALSE]

\* what an inference may go on to produce: some text, then possibly a function call
Plans ==
    {[active |-> TRUE, deltas |-> d, call |-> FALSE, name |-> "", args |-> {}] :
        d \in DeltaSeqs}
    \cup {[active |-> TRUE, deltas |-> d, call |-> TRUE, name |-> n, args |-> ArgsFor(n)] :
        d \in DeltaSeqs, n \in RegisteredNames}

\* the inferences that only talk, and those that say nothing before their call
TextPlans == {plan \in Plans : ~plan.call}
CallPlans == {plan \in Plans : plan.deltas = <<>>}

\* stt, context_aggregator.user(), llm: the next queued frame reaches the LLM stage.
\* A TTSSpeakFrame and an EndFrame pass through; a transcript becomes a user message
\* and starts an inference; so does a function call result.
LLMStage(plans) ==
    /\ Running
    /\ preq # <<>>
    /\ ~gen.active
    /\ LET f == Head(preq)
       IN /\ preq' = Tail(preq)
          /\ IF f.type \in {"TTSSpeak", "End"}
             THEN /\ ttsq' = Append(ttsq, f)
                  /\ UNCHANGED <<gen, messages, hist>>
             ELSE /\ \E plan \in plans :
                        /\ plan.call => Len(calls) < MaxCalls /\ f.type = "Transcript"
                        /\ gen' = plan
                  /\ messages' = IF f.type = "Transcript"
                                 THEN Append(messages, Message("user", Str(f.text)))
                                 ELSE messages
                  /\ hist' = [hist EXCEPT !.inferred = TRUE]
                  /\ UNCHANGED ttsq
    /\ UNCHANGED <<whVars, lifecycle, postq, speaking, emitted, partial, calls>>

\* llm: the running inference emits its next text delta, then its function call,
\* then the end of the response.
LLMEmit ==
    /\ Running
    /\ gen.active
    /\ IF gen.deltas # <<>>
       THEN /\ ttsq' = Append(ttsq, Frame("TextDelta", Head(gen.deltas)))
            /\ emitted' = Append(emitted, Head(gen.deltas))
            /\ gen' = [gen EXCEPT !.deltas = Tail(@)]
            /\ UNCHANGED calls
       ELSE /\ ttsq' = Append(ttsq, Frame("ResponseEnd", ""))
            /\ calls' = IF gen.call THEN Append(calls, NewCall(gen.name, gen.args)) ELSE calls
            /\ gen' = NoGen
            /\ UNCHANGED emitted
    /\ UNCHANGED <<whVars, lifecycle, preq, postq, speaking, partial, messages, hist>>

\* tts, transport.output(): the synthesizer speaks the next queued text and passes
\* spoken LLM text on to the assistant aggregator.
TTSStage ==
    /\ Running
    /\ ttsq # <<>>
    /\ LET f == Head(ttsq)
       IN /\ ttsq' = Tail(ttsq)
          /\ IF f.type \in {"TTSSpeak", "TextDelta"}
             THEN hist' = IF hist.firstAudio.seen THEN hist
                          ELSE [hist EXCEPT !.firstAudio =
                                   [seen |-> TRUE, text |-> f.text,
                                    inferred |-> hist.inferred,
                                    spoke |-> hist.spoke]]
             ELSE UNCHANGED hist
          /\ postq' = IF f.type = "TTSSpeak" THEN postq ELSE Append(postq, f)
    /\ UNCHANGED <<whVars, lifecycle, preq, speaking, gen, emitted, partial, messages,
                   calls>>

\* context_aggregator.assistant(), the last stage: it accumulates the text that
\* reaches it, finalizes the assistant message at the end of a response, and the
\* task is over once the EndFrame has come through.
AssistantStage ==
    /\ Running
    /\ postq # <<>>
    /\ LET f == Head(postq)
       IN /\ postq' = Tail(postq)
          /\ CASE f.type = "TextDelta" ->
                    /\ partial' = Append(partial, f.text)
                    /\ UNCHANGED <<messages, emitted, lifecycle>>
               [] f.type = "ResponseEnd" ->
                    /\ messages' = IF partial = <<>> THEN messages
                                   ELSE Append(messages,
                                               Message("assistant", Str(Join(partial, ""))))
                    /\ emitted' = SubSeq(emitted, Len(partial) + 1, Len(emitted))
                    /\ partial' = <<>>
                    /\ UNCHANGED lifecycle
               [] OTHER ->
                    /\ lifecycle' = "Closed"
                    /\ UNCHANGED <<messages, emitted, partial>>
    /\ UNCHANGED <<whVars, preq, ttsq, speaking, gen, calls, hist>>


(***************************************************************************)
(* Tool handlers.  Each call runs as its own task; a task runs from one    *)
(* await to the next in one step: started, (posted,) done; or it is        *)
(* cancelled by an Interrupt.                                              *)
(***************************************************************************)
\* await params.result_callback(result), called by call i: the result becomes a
\* tool message of the conversation and is handed back to the LLM
result_callback(i, result, failed) ==
    /\ calls' = [calls EXCEPT ![i].pc = "done", ![i].callbacks = @ + 1,
                              ![i].result = result, ![i].failed = failed]
    /\ messages' = Append(messages, Message("tool", result))
    /\ preq' = IF Running THEN Append(preq, Frame("ToolResult", "")) ELSE preq

\* handle_get_current_date: the date, no webhook, then the callback
handle_get_current_date(i) ==
    /\ calls[i].pc = "started"
    /\ calls[i].handler = "handle_get_current_date"
    /\ result_callback(i, Str(Today), FALSE)
    /\ UNCHANGED <<whVars, lifecycle, ttsq, postq, speaking, gen, emitted, partial, hist>>

\* handle_search_flights, handle_book_flight, handle_search_hotels, handle_book_hotel:
\* call_vapi_webhook(<name>, dict(args)) sends its request and awaits the reply
HandlerPost(i) ==
    /\ calls[i].pc = "started"
    /\ WebhookNameOf(calls[i].handler) # ""
    /\ calls' = [calls EXCEPT
                    ![i].pc = "posted",
                    ![i].posted = TRUE,
                    ![i].payload = Payload(WebhookNameOf(calls[i].handler),
                                           DictCopy(calls[i].args))]
    /\ UNCHANGED <<whVars, lifecycle, preq, ttsq, postq, speaking, gen, emitted, partial,
                   messages, hist>>

\* ... the POST ends, within its 30 s timeout; call_vapi_webhook returns and the
\* handler calls the callback with what it returned
HandlerReply(i) ==
    /\ calls[i].pc = "posted"
    /\ \E in \in SessionInputs :
           LET r == call_vapi_webhook(in.net, in.reply)
           IN IF r.raised
              THEN /\ calls' = [calls EXCEPT ![i].pc = "raised", ![i].failed = TRUE]
                   /\ UNCHANGED <<messages, preq>>
              ELSE result_callback(i, r.value, TryBody(in.net, in.reply).exc)
    /\ UNCHANGED <<whVars, lifecycle, ttsq, postq, speaking, gen, emitted, partial, hist>>

Pipeline(plans) ==
    \/ on_client_connected
    \/ on_client_disconnected
    \/ UserStartedSpeaking
    \/ UserStoppedSpeaking
    \/ LLMStage(plans)
    \/ LLMEmit
    \/ TTSStage
    \/ AssistantStage

Handlers ==
    \/ \E i \in DOMAIN calls : handle_get_current_date(i)
    \/ \E i \in DOMAIN calls : HandlerPost(i)
    \/ \E i \in DOMAIN calls : HandlerReply(i)

Next == Pipeline(Plans) \/ UserStartedSpeakingSilent \/ Handlers

Spec == Init /\ [][Next]_vars

\* a connection whose inferences only talk, and whose transport raises no Interrupt
\* for speech that starts while the assistant is silent
TalkNext == Pipeline(TextPlans) \/ UserStartedSpeakingSilent
TalkSpec == Init /\ [][TalkNext]_vars

\* a connection whose inferences call functions without talking first
ToolNext == Pipeline(CallPlans) \/ Handlers
ToolSpec == Init /\ [][ToolNext]_vars

\* the event loop keeps running the stages' tasks while the pipeline task is alive
StagesFair ==
    /\ WF_vars(LLMStage(TextPlans))
    /\ WF_vars(LLMEmit)
    /\ WF_vars(TTSStage)
    /\ WF_vars(AssistantStage)

FairTalkSpec == TalkSpec /\ StagesFair

WebhookSpec == WhInit /\ [][WhCall]_vars


(***************************************************************************)
(* Properties of the dispatcher (WebhookSpec)                              *)
(***************************************************************************)
\* every str(e) the try block can raise with
ErrorTexts ==
    {NetExcText(n) : n \in NetOutcomes \ {"ok"}}
    \cup {NoGet(t) : t \in {"str", "int", "NoneType", "bool", "list"}}
    \cup {NoLen(t) : t \in {"int", "NoneType", "bool"}}
    \cup {"0"}

IsErrorString(v) == v.k = "str" /\ \E m \in ErrorTexts : v.s = ErrorPrefix \o m

\* the precedence (a), (b), (c), reading "non-empty" as Python truth
ByPrecedence(v, r) ==
    IF r.isDict /\ r.hasResults /\ r.resultsIsList /\ Len(r.results) > 0
    THEN LET first == r.results[1]
         IN IF first.isMap /\ first.hasResult /\ Truthy(first.result)
            THEN v = first.result
            ELSE v = Str(DumpsElem(first))
    ELSE IF r.isDict /\ r.hasResult THEN v = r.result
    ELSE IF r.isDict THEN v = Str(DumpsReply(r))
    ELSE v \in {Str(StrVal(r.other)), Str(DumpsVal(r.other))}

\* a reply whose "results", if any, is a list that is empty or starts with a
\* mapping, or is an empty string or mapping
WellShaped(r) ==
    \/ ~r.isDict
    \/ ~r.hasResults
    \/ r.resultsIsList /\ (Len(r.results) = 0 \/ r.results[1].isMap)
    \/ ~r.resultsIsList /\ r.resultsVal \in {Str(""), Dict(0)}

\* C1 as stated: every reply that was received and decoded is answered by the
\* precedence (a) first result's "result" or the element's JSON, (b) "result"
\* verbatim, (c) the whole reply serialized.
C1_PrecedenceForEveryReply ==
    whOut.done /\ whIn.net = "ok" =>
        ~whOut.raised /\ ByPrecedence(whOut.value, whIn.reply)

\* C1 amended: the precedence holds for every well-shaped reply, with "non-empty"
\* meaning Python truth; any other reply gives the error string.
C1_PrecedenceForWellShapedReplies ==
    whOut.done /\ whIn.net = "ok" =>
        /\ ~whOut.raised
        /\ IF WellShaped(whIn.reply) THEN ByPrecedence(whOut.value, whIn.reply)
           ELSE IsErrorString(whOut.value)

\* {"results": [], "result": "ok"} falls through to (b)
C1_Witness ==
    /\ whOut.done
    /\ whIn.net = "ok"
    /\ whIn.reply.isDict /\ whIn.reply.hasResults /\ whIn.reply.resultsIsList
    /\ whIn.reply.results = <<>>
    /\ whIn.reply.hasResult
    /\ whOut.value = Str("ok")

\* transport, status, timeout and parsing failures
IsFailure(in) == in.net # "ok" \/ ~WellShaped(in.reply)

\* C2: whatever fails, call_vapi_webhook returns an error string and raises nothing.
C2_FailureIsAnErrorString ==
    whOut.done =>
        /\ ~whOut.raised
        /\ IsFailure(whIn) => IsErrorString(whOut.value)

\* a "results" whose first element is a string
C2_Witness ==
    /\ whOut.done
    /\ whIn.net = "ok"
    /\ whIn.reply.isDict /\ whIn.reply.resultsIsList
    /\ Len(whIn.reply.results) > 0
    /\ ~whIn.reply.results[1].isMap
    /\ whOut.value = Str(ErrorPrefix \o "'str' object has no attribute 'get'")

(***************************************************************************)
(* Properties of the function calls (ToolSpec)                             *)
(***************************************************************************)
HandlerStep(i) ==
    \/ handle_get_current_date(i)
    \/ HandlerPost(i)
    \/ HandlerReply(i)

HasToolMessage(v) == \E k \in DOMAIN messages : messages[k] = Message("tool", v)

\* C3: a call registered with cancel_on_interruption=False reports exactly one
\* result: never two, one once it is done, it is never cancelled and never stuck,
\* whatever Interrupts arrive while it is in flight.
C3_ExactlyOneResult ==
    \A i \in DOMAIN calls :
        ~calls[i].cancel_on_interruption =>
            /\ calls[i].callbacks <= 1
            /\ calls[i].pc \in {"started", "posted", "done"}
            /\ (calls[i].pc = "done") = (calls[i].callbacks = 1)
            /\ InFlight(calls[i]) => ENABLED HandlerStep(i)

C3_Witness ==
    \E i \in DOMAIN calls :
        /\ ~calls[i].cancel_on_interruption
        /\ calls[i].interrupted
        /\ calls[i].pc = "done"
        /\ calls[i].callbacks = 1

WebhookTools == {"search_flights", "book_flight", "search_hotels", "book_hotel"}

\* C4 as stated: no call of any of the five tools is aborted by an Interrupt.
C4_NoToolIsCancelled ==
    \A i \in DOMAIN calls : calls[i].pc # "cancelled"

\* C4 amended: the four webhook tools are not aborted by an Interrupt, run to
\* completion and leave their result in the conversation; get_current_date keeps
\* the default and can be cancelled.
C4_WebhookToolsNotCancelled ==
    \A i \in DOMAIN calls :
        /\ calls[i].name \in WebhookTools =>
              /\ ~calls[i].cancel_on_interruption
              /\ calls[i].pc # "cancelled"
              /\ InFlight(calls[i]) => ENABLED HandlerStep(i)
              /\ calls[i].pc = "done" => HasToolMessage(calls[i].result)
        /\ calls[i].name \notin WebhookTools =>
              calls[i].cancel_on_interruption = DefaultCancelOnInterruption

C4_Witness ==
    \E i \in DOMAIN calls :
        /\ calls[i].name = "book_hotel"
        /\ calls[i].interrupted
        /\ calls[i].pc = "done"
        /\ HasToolMessage(calls[i].result)

\* C9: a failed call leaves the session where it is; the session leaves Active only
\* by a disconnect; the failed call's result is the error text, in the conversation.
C9_FailureIsIsolated ==
    /\ [][/\ calls' # calls /\ ~(speaking' /\ ~speaking) => lifecycle' = lifecycle
          /\ lifecycle = "Active" /\ lifecycle' # "Active" =>
                /\ lifecycle' = "Closing"
                /\ ~hist.disconnected /\ hist'.disconnected
                /\ calls' = calls]_vars
    /\ [](\A i \in DOMAIN calls :
            /\ calls[i].pc # "raised"
            /\ calls[i].failed /\ calls[i].pc = "done" =>
                  /\ IsErrorString(calls[i].result)
                  /\ HasToolMessage(calls[i].result))

C9_Witness ==
    \E i \in DOMAIN calls :
        /\ calls[i].failed
        /\ calls[i].pc = "done"
        /\ lifecycle = "Active"
        /\ hist.inferred
        /\ HasToolMessage(Str(ErrorPrefix \o NetExcText("timeout")))

SchemaNames == {TRAVEL_TOOLS[i] : i \in DOMAIN TRAVEL_TOOLS}

\* C10: schema and registry name the same five functions, one handler each; a
\* webhook handler posts under the name it is registered under, with the call's
\* arguments; get_current_date posts nothing.
C10_SchemaMatchesRegistry ==
    /\ SchemaNames = RegisteredNames
    /\ Cardinality(SchemaNames) = 5
    /\ Len(TRAVEL_TOOLS) = 5
    /\ Len(Registrations) = 5
    /\ \A i \in DOMAIN calls :
          /\ calls[i].handler = Registered(calls[i].name).handler
          /\ calls[i].posted =>
                /\ calls[i].name # "get_current_date"
                /\ calls[i].payload.name = calls[i].name
                /\ calls[i].payload.arguments = calls[i].args
          /\ calls[i].name = "get_current_date" => ~calls[i].posted
          /\ calls[i].name # "get_current_date" /\ calls[i].pc = "done" =>
                calls[i].posted

C10_Witness ==
    \E i \in DOMAIN calls :
        /\ calls[i].name = "search_hotels"
        /\ calls[i].posted
        /\ calls[i].payload = [name |-> "search_hotels", arguments |-> {}]

Rank(l) ==
    CASE l = "Connecting" -> 0
      [] l = "Active" -> 1
      [] l = "Closing" -> 2
      [] OTHER -> 3

\* C7: the lifecycle only steps forward, one state at a time; a disconnect moves
\* Active to Closing with the EndFrame queued, and Closing ends in Closed.
C7_LifecycleForwardOnly ==
    /\ [][/\ Rank(lifecycle') >= Rank(lifecycle)
          /\ Rank(lifecycle') <= Rank(lifecycle) + 1
          /\ hist'.disconnected /\ ~hist.disconnected =>
                /\ lifecycle = "Active"
                /\ lifecycle' = "Closing"
                /\ preq' = Append(preq, EndFrame)]_vars
    /\ [](hist.disconnected => lifecycle \in {"Closing", "Closed"})
    /\ (hist.disconnected ~> lifecycle = "Closed")

C7_Witness ==
    /\ lifecycle = "Closed"
    /\ hist.disconnected
    /\ hist.firstAudio.seen

IsPrefix(p, q) == Len(p) <= Len(q) /\ SubSeq(q, 1, Len(p)) = p

\* a step in which the user starts speaking
Interrupted == speaking' /\ ~speaking

====
